---- MODULE Spec2Model ----
(***************************************************************************)
(* Model of the task REST controller of Task-App                           *)
(* (backend/controllers/taskController.js together with the Mongoose Task  *)
(* schema that the same file carries) as a state machine over the tasks    *)
(* collection.                                                             *)
(*                                                                         *)
(* Every `await` on the collection is one atomic step.  getTasks and       *)
(* createTask make one collection call each and are one action each.       *)
(* updateTask and deleteTask make two calls (findById, then                *)
(* findByIdAndUpdate / deleteOne), so each is two actions and requests of  *)
(* other connections may run between them.  The synchronous code between   *)
(* two awaits (the guards of lines 39-47 and 67-73) belongs to the step of *)
(* the await before it.                                                    *)
(*                                                                         *)
(* Spec is the server under arbitrary requests.  SpecClient is the         *)
(* Dashboard component of src/App.jsx of one logged-in user driving that   *)
(* server through taskService.  SpecMock runs one sequence of operations   *)
(* of one user against the server and against MockBackend of src/App.jsx.  *)
(***************************************************************************)
EXTENDS Integers, FiniteSets, Sequences, TLC

\* ---------------------------------------------------------------- bounds
\* Number of ObjectIds the collection hands out (documents ever created).
MaxTasks == 2
\* Number of requests the server receives in one behaviour.
MaxOps == 3

\* ------------------------------------------------------------ value sets
\* A field that the JSON body does not carry.
Missing == "<missing>"
\* req.user is undefined: the request carries no authenticated identity.
NoUser == "<nouser>"
\* User ids (the `user` ObjectId of the schema, req.user.id).
Users == {"u1", "u2"}
Actors == Users \cup {NoUser}
\* Concurrent requests the server is serving (connections).
Reqs == {"r1", "r2"}
\* Well-formed task ObjectIds a request may name, existing or not.
Ids == 1..MaxTasks
\* The enum of the schema's status path.
StatusEnum == {"todo", "in-progress", "done"}
\* Values a request body may carry for each path.
TitleInputs == {Missing, "", " ", "a"}
StatusInputs == {Missing, "todo", "in-progress", "done", "archived"}
UserInputs == {Missing} \cup Users
\* req.body: arbitrary JSON, here its title, status and user members.
Bodies == [title : TitleInputs, status : StatusInputs, user : UserInputs]

VARIABLES
    tasks,    \* the collection: _id -> [user, title, status]
    nextId,   \* the next ObjectId the collection generates
    pc,       \* per connection: "idle", or the handler suspended at its 2nd await
    req,      \* per connection: req.user.id and req.params.id of that handler
    last,     \* the response sent last: res.status(code).json(body)
    ops,      \* requests received so far
    creator,  \* history: _id -> the acting identity of the createTask that made it
    local,    \* Dashboard: the `tasks` state (useState([]))
    loading,  \* Dashboard: the `loading` state (useState(true))
    calls,    \* Dashboard: per connection, the handler invocation in flight
    logged,   \* Dashboard: console.error has been called
    early,    \* history: a handler was invoked while loading was still true
    mock,     \* MockBackend: the array stored under localStorage 'mock_tasks'
    now,      \* MockBackend: Date.now()
    mockOut,  \* MockBackend: how the call made last settled
    cur,      \* the operation being run against the server and the MockBackend
    twin      \* history: server _id -> the _id of the same create in the MockBackend

\* The state of the server and the state of the Dashboard.
svars == <<tasks, nextId, pc, req, last, ops, creator>>
dvars == <<local, loading, calls, logged, early>>
\* The state of the MockBackend and of the run that compares it.
mvars == <<mock, now, mockOut, cur, twin>>

vars == <<tasks, nextId, pc, req, last, ops, creator,
          local, loading, calls, logged, early,
          mock, now, mockOut, cur, twin>>

\* ------------------------------------------------------- pure operators
\* Variant of Truthy: the title is only tested against undefined.
TruthyDefinedOnly(v) == v # Missing

\* JavaScript truthiness of req.body.title (line 17): undefined and "" are falsy.
Truthy(v) == v # Missing /\ v # ""

\* A stored document as it is serialised in a response.
Doc(store, id) ==
    [id |-> id, user |-> store[id].user,
     title |-> store[id].title, status |-> store[id].status]

\* Variant of Find: the filter is dropped, Task.find({}).
FindUnfiltered(store, uid) == DOMAIN store

\* Task.find({ user: uid }) (line 7): the ids of the documents of that user.
Find(store, uid) == {id \in DOMAIN store : store[id].user = uid}

\* Task.findById(id) (lines 37, 65) finds a document or null.
Exists(store, id) == id \in DOMAIN store

\* Variant of NewTask: the body's status is passed on to Task.create.
NewTaskStatusFromBody(uid, body) ==
    [user |-> uid, title |-> body.title,
     status |-> IF body.status = Missing THEN "todo" ELSE body.status]

\* Variant of NewTask: the body is spread into Task.create, so a user
\* member of the body replaces req.user.id.
NewTaskUserFromBody(uid, body) ==
    [user |-> IF body.user = Missing THEN uid ELSE body.user,
     title |-> body.title, status |-> "todo"]

\* The document Task.create builds (lines 22-26): only title is taken from
\* the body; status is the literal 'todo' and user is req.user.id.
NewTask(uid, body) == [user |-> uid, title |-> body.title, status |-> "todo"]

\* Task.findByIdAndUpdate(id, req.body, { new: true }) (lines 49-53): every
\* schema path the body carries is $set; no runValidators option is given,
\* so neither `required` nor `enum` of the schema is evaluated on this path.
ApplyUpdate(t, body) ==
    [user   |-> IF body.user = Missing THEN t.user ELSE body.user,
     title  |-> IF body.title = Missing THEN t.title ELSE body.title,
     status |-> IF body.status = Missing THEN t.status ELSE body.status]

\* Variant of Guard: the comparison of task.user with req.user.id is left out.
GuardNoOwnerCheck(store, id, actor) ==
    IF ~Exists(store, id) THEN 404
    ELSE IF actor = NoUser THEN 401
    ELSE 0

\* Variant of Guard: the `!task` test is left out, so task.user throws on
\* null and the catch answers 500.
GuardNoNullCheck(store, id, actor) ==
    IF ~Exists(store, id) THEN 500
    ELSE IF actor = NoUser THEN 401
    ELSE IF store[id].user # actor THEN 401
    ELSE 0

\* The guards of updateTask (lines 39-47) and deleteTask (lines 67-73) on the
\* result of findById: the status code answered, or 0 to go on.
Guard(store, id, actor) ==
    IF ~Exists(store, id) THEN 404
    ELSE IF actor = NoUser THEN 401
    ELSE IF store[id].user # actor THEN 401
    ELSE 0

\* res.status(code).json(...): op, the request's identity and id, the code and
\* the task documents of the body (none for a message, an id or null).
Response(op, actor, id, code, docs) ==
    [op |-> op, actor |-> actor, id |-> id, code |-> code, body |-> docs]

\* JSON null as a list element: what findByIdAndUpdate resolves to when no
\* document has the id, as the Dashboard receives it (App.jsx line 516).
NullDoc == [id |-> 0, user |-> NoUser, title |-> Missing, status |-> Missing]

\* No handler invocation in flight on a connection.
IdleCall ==
    [kind |-> "none", stage |-> "idle", snap |-> << >>, id |-> 0,
     arg |-> Missing, code |-> 0, data |-> {}]

\* The seed of MockBackend.fetchTasks (App.jsx lines 74-78); the ids '1',
\* '2', '3' are written as numbers, and Date.now() lies beyond them.
SeedTasks ==
    << [id |-> 1, title |-> "Start learning Full Stack Development",
        status |-> "in-progress", user |-> Missing],
       [id |-> 2, title |-> "Build the Frontend",
        status |-> "done", user |-> Missing],
       [id |-> 3, title |-> "Setup MongoDB Database",
        status |-> "todo", user |-> Missing] >>

\* A MockBackend call settles: it resolves with documents (ok) or throws.
Settle(ok, docs) == [ok |-> ok, docs |-> docs]

\* No operation is being compared.
NoOperation ==
    [op |-> "none", id |-> 0,
     body |-> [title |-> Missing, status |-> Missing, user |-> Missing],
     stage |-> "done"]

\* ------------------------------------------------------------------ Init
Init ==
    /\ tasks = << >>
    /\ nextId = 1
    /\ pc = [r \in Reqs |-> "idle"]
    /\ req = [r \in Reqs |-> [actor |-> NoUser, id |-> 0]]
    /\ last = Response("none", NoUser, 0, 0, {})
    /\ ops = 0
    /\ creator = << >>
    /\ local = << >>
    /\ loading = TRUE
    /\ calls = [c \in Reqs |-> IdleCall]
    /\ logged = FALSE
    /\ early = FALSE
    /\ mock = << >>
    /\ now = Len(SeedTasks) + 1
    /\ mockOut = Settle(TRUE, << >>)
    /\ cur = NoOperation
    /\ twin = << >>

\* --------------------------------------------------------------- actions
\* getTasks (lines 5-12).  Without req.user, req.user.id throws inside the
\* try and the catch answers 500.
GetTasks(u) ==
    /\ ops < MaxOps
    /\ ops' = ops + 1
    /\ last' = IF u = NoUser
               THEN Response("get", u, 0, 500, {})
               ELSE Response("get", u, 0, 200,
                             {Doc(tasks, id) : id \in Find(tasks, u)})
    /\ UNCHANGED <<tasks, nextId, pc, req, creator>>

\* createTask (lines 16-31).
CreateTask(u, body) ==
    /\ ops < MaxOps
    /\ ops' = ops + 1
    /\ IF ~Truthy(body.title)
       THEN /\ last' = Response("create", u, 0, 400, {})
            /\ UNCHANGED <<tasks, nextId, creator>>
       ELSE IF u = NoUser
       THEN /\ last' = Response("create", u, 0, 500, {})
            /\ UNCHANGED <<tasks, nextId, creator>>
       ELSE /\ nextId <= MaxTasks
            /\ tasks' = [i \in DOMAIN tasks \cup {nextId} |->
                            IF i = nextId THEN NewTask(u, body) ELSE tasks[i]]
            /\ creator' = [i \in DOMAIN creator \cup {nextId} |->
                            IF i = nextId THEN u ELSE creator[i]]
            /\ nextId' = nextId + 1
            /\ last' = Response("create", u, nextId, 200, {Doc(tasks', nextId)})
    /\ UNCHANGED <<pc, req>>

\* updateTask up to its second await (lines 37-47).
UpdateLookup(r, u, id) ==
    /\ pc[r] = "idle"
    /\ ops < MaxOps
    /\ ops' = ops + 1
    /\ IF Guard(tasks, id, u) # 0
       THEN /\ last' = Response("update", u, id, Guard(tasks, id, u), {})
            /\ UNCHANGED <<pc, req>>
       ELSE /\ pc' = [pc EXCEPT ![r] = "update"]
            /\ req' = [req EXCEPT ![r] = [actor |-> u, id |-> id]]
            /\ UNCHANGED last
    /\ UNCHANGED <<tasks, nextId, creator>>

\* updateTask from its second await (lines 49-55).  The body is part of the
\* request; nothing before this step reads it, so it is drawn here.
\* findByIdAndUpdate resolves to null when no document has the id, and
\* line 55 answers 200 with it.
UpdateApply(r, body) ==
    /\ pc[r] = "update"
    /\ IF Exists(tasks, req[r].id)
       THEN /\ tasks' = [tasks EXCEPT ![req[r].id] = ApplyUpdate(@, body)]
            /\ last' = Response("update", req[r].actor, req[r].id, 200,
                                {Doc(tasks', req[r].id)})
       ELSE /\ last' = Response("update", req[r].actor, req[r].id, 200, {})
            /\ UNCHANGED tasks
    /\ pc' = [pc EXCEPT ![r] = "idle"]
    /\ req' = [req EXCEPT ![r] = [actor |-> NoUser, id |-> 0]]
    /\ UNCHANGED <<nextId, ops, creator>>

\* deleteTask up to its second await (lines 65-73).
DeleteLookup(r, u, id) ==
    /\ pc[r] = "idle"
    /\ ops < MaxOps
    /\ ops' = ops + 1
    /\ IF Guard(tasks, id, u) # 0
       THEN /\ last' = Response("delete", u, id, Guard(tasks, id, u), {})
            /\ UNCHANGED <<pc, req>>
       ELSE /\ pc' = [pc EXCEPT ![r] = "delete"]
            /\ req' = [req EXCEPT ![r] = [actor |-> u, id |-> id]]
            /\ UNCHANGED last
    /\ UNCHANGED <<tasks, nextId, creator>>

\* Variant of DeleteRemove: Task.deleteMany({ user }) in place of
\* task.deleteOne().
DeleteRemoveMany(r) ==
    /\ pc[r] = "delete"
    /\ tasks' = [i \in {j \in DOMAIN tasks : tasks[j].user # req[r].actor}
                    |-> tasks[i]]
    /\ last' = Response("delete", req[r].actor, req[r].id, 200, {})
    /\ pc' = [pc EXCEPT ![r] = "idle"]
    /\ req' = [req EXCEPT ![r] = [actor |-> NoUser, id |-> 0]]
    /\ UNCHANGED <<nextId, ops, creator>>

\* deleteTask from its second await (lines 75-77).  task.deleteOne() removes
\* the document with the id, if any, and resolves either way.
DeleteRemove(r) ==
    /\ pc[r] = "delete"
    /\ tasks' = [i \in DOMAIN tasks \ {req[r].id} |-> tasks[i]]
    /\ last' = Response("delete", req[r].actor, req[r].id, 200, {})
    /\ pc' = [pc EXCEPT ![r] = "idle"]
    /\ req' = [req EXCEPT ![r] = [actor |-> NoUser, id |-> 0]]
    /\ UNCHANGED <<nextId, ops, creator>>

\* The server under arbitrary requests; no Dashboard is running.
Next ==
    \/ \E u \in Actors : GetTasks(u) /\ UNCHANGED <<dvars, mvars>>
    \/ \E u \in Actors, body \in Bodies : CreateTask(u, body) /\ UNCHANGED <<dvars, mvars>>
    \/ \E r \in Reqs, u \in Actors, id \in Ids :
          UpdateLookup(r, u, id) /\ UNCHANGED <<dvars, mvars>>
    \/ \E r \in Reqs, body \in Bodies : UpdateApply(r, body) /\ UNCHANGED <<dvars, mvars>>
    \/ \E r \in Reqs, u \in Actors, id \in Ids :
          DeleteLookup(r, u, id) /\ UNCHANGED <<dvars, mvars>>
    \/ \E r \in Reqs : DeleteRemove(r) /\ UNCHANGED <<dvars, mvars>>

Spec == Init /\ [][Next]_vars

\* ------------------------------------------------------------ type check
TypeOK ==
    /\ DOMAIN tasks \subseteq Ids
    /\ nextId \in 1..(MaxTasks + 1)
    /\ pc \in [Reqs -> {"idle", "update", "delete"}]
    /\ ops \in 0..MaxOps
    /\ DOMAIN creator = 1..(nextId - 1)
    /\ loading \in BOOLEAN /\ logged \in BOOLEAN /\ early \in BOOLEAN
    /\ \A c \in Reqs : calls[c].stage \in {"idle", "sent", "serving", "answered"}
    /\ cur.stage \in {"done", "server", "serving", "mock"}
    /\ \A i \in DOMAIN mock : mock[i].id < now

\* ============================================================= Dashboard
\* Dashboard of src/App.jsx (lines 481-642) with taskService in server mode
\* (DEMO_MODE = false, line 27).  A handler runs up to its await when it is
\* invoked, the server then serves the request, and the handler's
\* continuation runs as a step of its own; it reads `tasks` from the
\* closure of the render in which the handler was invoked.

\* The logged-in user whose token the request interceptor attaches
\* (App.jsx lines 37-46).
ClientUser == "u1"

\* String.prototype.trim on the titles of TitleInputs (App.jsx line 503).
Trim(t) == IF t = " " THEN "" ELSE t

\* The array res.data of GET /tasks: the documents in insertion order.
RECURSIVE DocsById(_)
DocsById(S) ==
    IF S = {} THEN << >>
    ELSE LET d == CHOOSE x \in S : \A y \in S : x.id <= y.id
         IN  <<d>> \o DocsById(S \ {d})

\* The elements of an array.
Elems(q) == {q[i] : i \in DOMAIN q}

\* What the Dashboard renders as an error: its render (App.jsx lines
\* 544-641) reads tasks, loading, newTaskTitle and filter, and none of them
\* holds a failure; console.error writes to the developer console only.
NoMessage == "<nomessage>"
DashboardMessage == NoMessage

\* The handler invocation of connection c as it waits for its answer.
Sent(kind, id, arg) ==
    [kind |-> kind, stage |-> "sent", snap |-> local, id |-> id,
     arg |-> arg, code |-> 0, data |-> {}]

\* The invocation of connection c with the answer the server just sent:
\* axios resolves with res.data on 200 and rejects on any other status.
Answered(c) == [calls[c] EXCEPT !.stage = "answered",
                                !.code = last'.code, !.data = last'.body]

\* useEffect / fetchTasks (App.jsx lines 486-499): GET /tasks, then
\* setTasks(data) and setLoading(false).
FetchTasks ==
    /\ loading
    /\ GetTasks(ClientUser)
    /\ local' = IF last'.code = 200 THEN DocsById(last'.body) ELSE local
    /\ logged' = (logged \/ last'.code # 200)
    /\ loading' = FALSE
    /\ UNCHANGED <<calls, early>>
    /\ UNCHANGED mvars

\* handleAddTask up to its await (App.jsx lines 501-505): POST /tasks with
\* the title as typed, unless it trims to nothing.
HandleAddTask(c, title) ==
    /\ calls[c].stage = "idle"
    /\ pc[c] = "idle"
    /\ Truthy(Trim(title))
    /\ calls' = [calls EXCEPT ![c] = Sent("add", 0, title)]
    /\ early' = (early \/ loading)
    /\ UNCHANGED <<local, loading, logged>>
    /\ UNCHANGED svars
    /\ UNCHANGED mvars

\* handleUpdateStatus up to its await (App.jsx lines 513-515), from the
\* select of a rendered TaskItem (line 300): PUT /tasks/:id { status }.
HandleUpdateStatus(c, id, status) ==
    /\ calls[c].stage = "idle"
    /\ pc[c] = "idle"
    /\ ~loading
    /\ \E i \in DOMAIN local : local[i].id = id
    /\ calls' = [calls EXCEPT ![c] = Sent("update", id, status)]
    /\ UNCHANGED <<local, loading, logged, early>>
    /\ UNCHANGED svars
    /\ UNCHANGED mvars

\* handleDelete up to its await (App.jsx lines 522-525), confirmed, from the
\* button of a rendered TaskItem (line 308): DELETE /tasks/:id.
HandleDelete(c, id) ==
    /\ calls[c].stage = "idle"
    /\ pc[c] = "idle"
    /\ ~loading
    /\ \E i \in DOMAIN local : local[i].id = id
    /\ calls' = [calls EXCEPT ![c] = Sent("delete", id, Missing)]
    /\ UNCHANGED <<local, loading, logged, early>>
    /\ UNCHANGED svars
    /\ UNCHANGED mvars

\* The request does not reach the server: the promise
\* of api.post / api.put / api.delete (App.jsx lines 131, 136, 141) rejects.
TransportError(c) ==
    /\ calls[c].stage = "sent"
    /\ calls' = [calls EXCEPT ![c].stage = "answered"]
    /\ UNCHANGED <<local, loading, logged, early>>
    /\ UNCHANGED svars
    /\ UNCHANGED mvars

\* The server serves POST /tasks { title } of connection c.
ServeCreate(c) ==
    /\ calls[c].stage = "sent" /\ calls[c].kind = "add"
    /\ CreateTask(ClientUser,
                  [title |-> calls[c].arg, status |-> Missing, user |-> Missing])
    /\ calls' = [calls EXCEPT ![c] = Answered(c)]
    /\ UNCHANGED <<local, loading, logged, early>>
    /\ UNCHANGED mvars

\* The server serves PUT /tasks/:id { status } of connection c, two steps.
ServeUpdateLookup(c) ==
    /\ calls[c].stage = "sent" /\ calls[c].kind = "update"
    /\ UpdateLookup(c, ClientUser, calls[c].id)
    /\ calls' = [calls EXCEPT ![c] = IF pc'[c] = "update"
                                      THEN [@ EXCEPT !.stage = "serving"]
                                      ELSE Answered(c)]
    /\ UNCHANGED <<local, loading, logged, early>>
    /\ UNCHANGED mvars

ServeUpdateApply(c) ==
    /\ calls[c].stage = "serving" /\ calls[c].kind = "update"
    /\ UpdateApply(c, [title |-> Missing, status |-> calls[c].arg,
                       user |-> Missing])
    /\ calls' = [calls EXCEPT ![c] = Answered(c)]
    /\ UNCHANGED <<local, loading, logged, early>>
    /\ UNCHANGED mvars

\* The server serves DELETE /tasks/:id of connection c, two steps.
ServeDeleteLookup(c) ==
    /\ calls[c].stage = "sent" /\ calls[c].kind = "delete"
    /\ DeleteLookup(c, ClientUser, calls[c].id)
    /\ calls' = [calls EXCEPT ![c] = IF pc'[c] = "delete"
                                      THEN [@ EXCEPT !.stage = "serving"]
                                      ELSE Answered(c)]
    /\ UNCHANGED <<local, loading, logged, early>>
    /\ UNCHANGED mvars

ServeDeleteRemove(c) ==
    /\ calls[c].stage = "serving" /\ calls[c].kind = "delete"
    /\ DeleteRemove(c)
    /\ calls' = [calls EXCEPT ![c] = Answered(c)]
    /\ UNCHANGED <<local, loading, logged, early>>
    /\ UNCHANGED mvars

\* handleAddTask after its await (App.jsx lines 505-510):
\* setTasks([...tasks, newTask]), or console.error in the catch.
AddTaskDone(c) ==
    /\ calls[c].stage = "answered" /\ calls[c].kind = "add"
    /\ IF calls[c].code = 200
       THEN /\ local' = calls[c].snap \o DocsById(calls[c].data)
            /\ UNCHANGED logged
       ELSE /\ logged' = TRUE
            /\ UNCHANGED local
    /\ calls' = [calls EXCEPT ![c] = IdleCall]
    /\ UNCHANGED <<loading, early>>
    /\ UNCHANGED svars
    /\ UNCHANGED mvars

\* handleUpdateStatus after its await (App.jsx lines 515-519):
\* setTasks(tasks.map(t => t._id === id ? updated : t)), or console.error.
UpdateStatusDone(c) ==
    /\ calls[c].stage = "answered" /\ calls[c].kind = "update"
    /\ IF calls[c].code = 200
       THEN /\ local' =
                 [i \in DOMAIN calls[c].snap |->
                     IF calls[c].snap[i].id = calls[c].id
                     THEN IF calls[c].data = {} THEN NullDoc
                          ELSE CHOOSE d \in calls[c].data : TRUE
                     ELSE calls[c].snap[i]]
            /\ UNCHANGED logged
       ELSE /\ logged' = TRUE
            /\ UNCHANGED local
    /\ calls' = [calls EXCEPT ![c] = IdleCall]
    /\ UNCHANGED <<loading, early>>
    /\ UNCHANGED svars
    /\ UNCHANGED mvars

\* The test of the filter of handleDelete.
KeptOnDelete(doc, id) == doc.id # id

\* handleDelete after its await (App.jsx lines 525-529):
\* setTasks(tasks.filter(t => t._id !== id)), or console.error.
DeleteDone(c) ==
    /\ calls[c].stage = "answered" /\ calls[c].kind = "delete"
    /\ IF calls[c].code = 200
       THEN /\ local' = SelectSeq(calls[c].snap,
                                  LAMBDA d : KeptOnDelete(d, calls[c].id))
            /\ UNCHANGED logged
       ELSE /\ logged' = TRUE
            /\ UNCHANGED local
    /\ calls' = [calls EXCEPT ![c] = IdleCall]
    /\ UNCHANGED <<loading, early>>
    /\ UNCHANGED svars
    /\ UNCHANGED mvars

ClientNext ==
    \/ FetchTasks
    \/ \E c \in Reqs, t \in TitleInputs \ {Missing} : HandleAddTask(c, t)
    \/ \E c \in Reqs, id \in Ids, st \in StatusEnum :
          HandleUpdateStatus(c, id, st)
    \/ \E c \in Reqs, id \in Ids : HandleDelete(c, id)
    \/ \E c \in Reqs : TransportError(c)
    \/ \E c \in Reqs : ServeCreate(c)
    \/ \E c \in Reqs : ServeUpdateLookup(c)
    \/ \E c \in Reqs : ServeUpdateApply(c)
    \/ \E c \in Reqs : ServeDeleteLookup(c)
    \/ \E c \in Reqs : ServeDeleteRemove(c)
    \/ \E c \in Reqs : AddTaskDone(c)
    \/ \E c \in Reqs : UpdateStatusDone(c)
    \/ \E c \in Reqs : DeleteDone(c)

SpecClient == Init /\ [][ClientNext]_vars

\* The Dashboard is at rest: loaded, with no handler invocation in flight.
Settled == ~loading /\ \A c \in Reqs : calls[c].stage = "idle"

\* =========================================================== MockBackend
\* MockBackend of src/App.jsx (lines 52-110): the task store behind
\* taskService when DEMO_MODE is true.  A mock document is the body it was
\* created from with _id and status set; a member the body does not carry
\* is Missing.

\* An _id that no mock document has.
AbsentId == 0

\* tasks.findIndex(t => t._id === id) (App.jsx line 95), 0 when there is none.
FindIndex(q, id) ==
    IF \E i \in DOMAIN q : q[i].id = id
    THEN CHOOSE i \in DOMAIN q :
            q[i].id = id /\ \A j \in DOMAIN q : q[j].id = id => i <= j
    ELSE 0

\* { ...tasks[index], ...updates } (App.jsx line 97).
Merge(t, updates) ==
    [id     |-> t.id,
     title  |-> IF updates.title = Missing THEN t.title ELSE updates.title,
     status |-> IF updates.status = Missing THEN t.status ELSE updates.status,
     user   |-> IF updates.user = Missing THEN t.user ELSE updates.user]

\* The test of the filter of MockBackend.deleteTask (App.jsx line 106).
KeptOnMockDelete(t, id) == t.id # id

\* MockBackend.fetchTasks (App.jsx lines 69-83).
MockFetchTasks ==
    /\ IF Len(mock) = 0
       THEN /\ mock' = SeedTasks
            /\ mockOut' = Settle(TRUE, SeedTasks)
       ELSE /\ mockOut' = Settle(TRUE, mock)
            /\ UNCHANGED mock
    /\ UNCHANGED now

\* MockBackend.createTask (App.jsx lines 84-91):
\* { ...task, _id: Date.now().toString(), status: 'todo' }.
MockCreateTask(task) ==
    /\ mock' = Append(mock, [id |-> now, title |-> task.title,
                             status |-> "todo", user |-> task.user])
    /\ mockOut' = Settle(TRUE, <<mock'[Len(mock')]>>)
    /\ now' = now + 1

\* MockBackend.updateTask (App.jsx lines 92-102).
MockUpdateTask(id, updates) ==
    /\ IF FindIndex(mock, id) # 0
       THEN /\ mock' = [mock EXCEPT ![FindIndex(mock, id)] = Merge(@, updates)]
            /\ mockOut' = Settle(TRUE, <<mock'[FindIndex(mock, id)]>>)
       ELSE /\ mockOut' = Settle(FALSE, << >>)
            /\ UNCHANGED mock
    /\ UNCHANGED now

\* MockBackend.deleteTask (App.jsx lines 103-109).
MockDeleteTask(id) ==
    /\ mock' = SelectSeq(mock, LAMBDA t : KeptOnMockDelete(t, id))
    /\ mockOut' = Settle(TRUE, << >>)
    /\ UNCHANGED now

\* ------------------------------------------- one run against both stores
\* taskService (App.jsx lines 113-144) sends each call to MockBackend or to
\* the server.  The same call is made on both: the server serves it for
\* ClientUser on one connection, then MockBackend does.

\* The connection the run uses.
RunConn == "r1"

\* The mock _id that stands for server _id `id`: that of the same create.
MockId(id) == IF id \in DOMAIN twin THEN twin[id] ELSE AbsentId

\* cur moved on to the given stage.
Stage(st) == [cur EXCEPT !.stage = st]

\* A call of taskService: getAll, create, update or delete.
Call(op, id, body) ==
    /\ cur.stage = "done"
    /\ ops < MaxOps
    /\ cur' = [op |-> op, id |-> id, body |-> body, stage |-> "server"]
    /\ UNCHANGED <<mock, now, mockOut, twin>>
    /\ UNCHANGED svars
    /\ UNCHANGED dvars

RunGetTasks ==
    /\ cur.stage = "server" /\ cur.op = "list"
    /\ GetTasks(ClientUser)
    /\ cur' = Stage("mock")
    /\ UNCHANGED <<mock, now, mockOut, twin>>
    /\ UNCHANGED dvars

RunCreateTask ==
    /\ cur.stage = "server" /\ cur.op = "create"
    /\ CreateTask(ClientUser, cur.body)
    /\ cur' = Stage("mock")
    /\ UNCHANGED <<mock, now, mockOut, twin>>
    /\ UNCHANGED dvars

RunUpdateLookup ==
    /\ cur.stage = "server" /\ cur.op = "update"
    /\ UpdateLookup(RunConn, ClientUser, cur.id)
    /\ cur' = Stage(IF pc'[RunConn] = "update" THEN "serving" ELSE "mock")
    /\ UNCHANGED <<mock, now, mockOut, twin>>
    /\ UNCHANGED dvars

RunUpdateApply ==
    /\ cur.stage = "serving" /\ cur.op = "update"
    /\ UpdateApply(RunConn, cur.body)
    /\ cur' = Stage("mock")
    /\ UNCHANGED <<mock, now, mockOut, twin>>
    /\ UNCHANGED dvars

RunDeleteLookup ==
    /\ cur.stage = "server" /\ cur.op = "delete"
    /\ DeleteLookup(RunConn, ClientUser, cur.id)
    /\ cur' = Stage(IF pc'[RunConn] = "delete" THEN "serving" ELSE "mock")
    /\ UNCHANGED <<mock, now, mockOut, twin>>
    /\ UNCHANGED dvars

RunDeleteRemove ==
    /\ cur.stage = "serving" /\ cur.op = "delete"
    /\ DeleteRemove(RunConn)
    /\ cur' = Stage("mock")
    /\ UNCHANGED <<mock, now, mockOut, twin>>
    /\ UNCHANGED dvars

RunMockFetch ==
    /\ cur.stage = "mock" /\ cur.op = "list"
    /\ MockFetchTasks
    /\ cur' = Stage("done")
    /\ UNCHANGED twin
    /\ UNCHANGED svars
    /\ UNCHANGED dvars

RunMockCreate ==
    /\ cur.stage = "mock" /\ cur.op = "create"
    /\ MockCreateTask(cur.body)
    /\ twin' = IF last.code = 200
               THEN [i \in DOMAIN twin \cup {last.id} |->
                        IF i = last.id THEN now ELSE twin[i]]
               ELSE twin
    /\ cur' = Stage("done")
    /\ UNCHANGED svars
    /\ UNCHANGED dvars

RunMockUpdate ==
    /\ cur.stage = "mock" /\ cur.op = "update"
    /\ MockUpdateTask(MockId(cur.id), cur.body)
    /\ cur' = Stage("done")
    /\ UNCHANGED twin
    /\ UNCHANGED svars
    /\ UNCHANGED dvars

RunMockDelete ==
    /\ cur.stage = "mock" /\ cur.op = "delete"
    /\ MockDeleteTask(MockId(cur.id))
    /\ cur' = Stage("done")
    /\ UNCHANGED twin
    /\ UNCHANGED svars
    /\ UNCHANGED dvars

MockNext ==
    \/ Call("list", 0, NoOperation.body)
    \/ \E body \in Bodies : Call("create", 0, body)
    \/ \E id \in Ids, body \in Bodies : Call("update", id, body)
    \/ \E id \in Ids : Call("delete", id, NoOperation.body)
    \/ RunGetTasks
    \/ RunCreateTask
    \/ RunUpdateLookup
    \/ RunUpdateApply
    \/ RunDeleteLookup
    \/ RunDeleteRemove
    \/ RunMockFetch
    \/ RunMockCreate
    \/ RunMockUpdate
    \/ RunMockDelete

SpecMock == Init /\ [][MockNext]_vars

\* A document without its ids: what the two stores can agree on.
Shape(d) == [title |-> d.title, status |-> d.status]
Shapes(q) == [i \in DOMAIN q |-> Shape(q[i])]

\* ================================================================ claims
\* What getTasks answers to identity u in a given collection.
ListOf(store, u) == {Doc(store, i) : i \in Find(store, u)}

\* A title that is empty or consists only of whitespace.
IsBlank(t) == t \in {"", " "}

\* An id the collection once handed out and that no document has any more.
Deleted(id) == id \in DOMAIN creator /\ id \notin DOMAIN tasks

\* C1: every persisted task's status is one of todo, in-progress, done,
\* whatever createTask, updateTask and deleteTask requests were served.
C1_StatusInEnum == \A id \in DOMAIN tasks : tasks[id].status \in StatusEnum

\* C2: from creation to deletion a task's user field equals the acting
\* identity of the createTask request that created it.
C2_OwnerIsCreator == \A id \in DOMAIN tasks : tasks[id].user = creator[id]

\* C3: updateTask or deleteTask by identity u1 on an existing task owned by
\* another identity answers 401 and leaves the collection as it was: the
\* task is still there, unchanged, and still in its owner's list.
C3_ForeignMutationRejected ==
    [][\A r \in Reqs, u1 \in Users, id \in Ids :
          ( /\ Exists(tasks, id)
            /\ tasks[id].user # u1
            /\ (UpdateLookup(r, u1, id) \/ DeleteLookup(r, u1, id)) )
          => /\ last'.code = 401
             /\ last'.actor = u1 /\ last'.id = id
             /\ tasks' = tasks
             /\ pc' = pc
             /\ Doc(tasks', id) = Doc(tasks, id)
             /\ Doc(tasks, id) \in ListOf(tasks', tasks[id].user)]_vars

\* C3 witness: a delete by one user was answered 401 and the task it named
\* is still stored under another user.
C3_Witness ==
    /\ last.op = "delete" /\ last.code = 401 /\ last.actor \in Users
    /\ Exists(tasks, last.id)
    /\ tasks[last.id].user \in Users \ {last.actor}

\* C4: getTasks for identity u answers exactly the stored tasks whose user
\* is u: every task of u, and no task of anybody else.
C4_ListIsOwnTasks ==
    [][\A u \in Users :
          GetTasks(u)
          => /\ last'.op = "get" /\ last'.code = 200
             /\ \A d \in last'.body :
                   d.user = u /\ Exists(tasks, d.id) /\ d = Doc(tasks, d.id)
             /\ \A i \in DOMAIN tasks :
                   tasks[i].user = u => Doc(tasks, i) \in last'.body]_vars

\* C4 witness: a list was answered with a task in it while the collection
\* also holds a task of another user.
C4_Witness ==
    /\ last.op = "get" /\ last.code = 200 /\ last.body # {}
    /\ \E i \in DOMAIN tasks : tasks[i].user # last.actor

\* C5: a createTask of identity u (present or absent) whose body has a
\* missing or empty title, whatever else the body carries, answers 400 and
\* the collection is the same before and after.
C5_EmptyTitleRejected ==
    [][\A u \in Actors :
          (last'.op = "create" /\ last'.actor = u)
          => \A t \in {Missing, ""}, st \in StatusInputs, w \in UserInputs :
                CreateTask(u, [title |-> t, status |-> st, user |-> w])
                => /\ last'.code = 400
                   /\ tasks' = tasks
                   /\ nextId' = nextId]_vars

\* C5 witness: a create was answered 400 while the collection holds a task.
C5_Witness ==
    /\ last.op = "create" /\ last.code = 400
    /\ DOMAIN tasks # {}

\* C6: no persisted task has an empty or whitespace-only title.
C6_TitleNotBlank == \A id \in DOMAIN tasks : ~IsBlank(tasks[id].title)

\* C7: when the task was deleted between the findById of an updateTask or
\* deleteTask and its findByIdAndUpdate / deleteOne, the request is
\* answered 404.
C7_RaceAnswersNotFound ==
    [][\A r \in Reqs :
          ( /\ pc[r] \in {"update", "delete"}
            /\ ~Exists(tasks, req[r].id)
            /\ pc'[r] = "idle" )
          => last'.code = 404]_vars

\* C8: updateTask answers 404 when no task has the id; otherwise 401 when
\* the identity is absent or is not the task's user; otherwise it applies
\* the body and answers 200 with the updated document.  With 404 and 401
\* the collection is unchanged.
C8_UpdateOutcomeOrder ==
    [][ /\ \A r \in Reqs, u \in Actors, id \in Ids :
              UpdateLookup(r, u, id)
              => IF ~Exists(tasks, id)
                 THEN last'.code = 404 /\ tasks' = tasks /\ pc' = pc
                 ELSE IF u = NoUser \/ tasks[id].user # u
                 THEN last'.code = 401 /\ tasks' = tasks /\ pc' = pc
                 ELSE pc'[r] = "update" /\ tasks' = tasks
        /\ \A r \in Reqs :
              (pc[r] = "update" /\ pc'[r] = "idle")
              => /\ last'.op = "update" /\ last'.code = 200
                 /\ Exists(tasks', req[r].id)
                 /\ last'.body = {Doc(tasks', req[r].id)}
                 /\ \E body \in Bodies :
                       /\ Exists(tasks, req[r].id)
                       /\ tasks' = [tasks EXCEPT ![req[r].id] =
                                       ApplyUpdate(@, body)] ]_vars

\* C9: after a createTask by u with title t that is answered 200 to u, where
\* u had no task titled t, u's list holds exactly one task titled t, its status is todo,
\* and the list of every other user is what it was.
C9_CreateThenList ==
    [][\A u \in Users :
          (last'.op = "create" /\ last'.code = 200 /\ last'.actor = u)
          => \A body \in Bodies :
                ( /\ CreateTask(u, body)
                  /\ \A d \in ListOf(tasks, u) : d.title # body.title )
                => /\ Cardinality({d \in ListOf(tasks', u) :
                                      d.title = body.title}) = 1
                   /\ \A d \in ListOf(tasks', u) :
                         d.title = body.title => d.status = "todo"
                   /\ \A v \in Users \ {u} :
                         ListOf(tasks', v) = ListOf(tasks, v)]_vars

\* C9 witness: a create succeeded, its task is the only one of its title in
\* the creator's list, and another user has a task as well.
C9_Witness ==
    /\ last.op = "create" /\ last.code = 200
    /\ \E d \in last.body :
          {e \in ListOf(tasks, last.actor) : e.title = d.title} = {d}
    /\ \E i \in DOMAIN tasks : tasks[i].user # last.actor

\* C10: a deleteTask received for an id that has been deleted answers 404,
\* whoever sends it, and leaves the collection unchanged.
C10_DeleteDeletedNotFound ==
    [][\A r \in Reqs, u \in Actors, id \in Ids :
          (Deleted(id) /\ DeleteLookup(r, u, id))
          => /\ last'.op = "delete" /\ last'.code = 404
             /\ last'.id = id
             /\ tasks' = tasks
             /\ pc' = pc
             /\ Deleted(id)']_vars

\* C10 witness: a delete of a deleted id was answered 404.
C10_Witness ==
    /\ last.op = "delete" /\ last.code = 404
    /\ Deleted(last.id)

\* C11: every task that a createTask of identity u creates starts with
\* status todo and user u, whatever status or user the body carries.
C11_CreatedTodoOwnedByActor ==
    [][\A u \in Actors :
          (last'.op = "create" /\ last'.actor = u)
          => \A body \in Bodies :
                (CreateTask(u, body) /\ DOMAIN tasks' # DOMAIN tasks)
                => /\ u \in Users
                   /\ \A i \in DOMAIN tasks' \ DOMAIN tasks :
                         /\ tasks'[i].status = "todo"
                         /\ tasks'[i].user = u
                         /\ last'.body = {Doc(tasks', i)}
                   /\ \A d \in last'.body : d.status = "todo" /\ d.user = u]_vars

\* C11 witness: the task a create just stored and answered has status todo
\* and the creating identity as its user.
C11_Witness ==
    /\ last.op = "create" /\ last.code = 200
    /\ Exists(tasks, last.id)
    /\ tasks[last.id].status = "todo"
    /\ tasks[last.id].user = last.actor

\* C13: an updateTask that finds its task changes at most that task's title
\* and status: its user stays, no document is added or removed, and every
\* other document is unchanged.
C13_UpdateFrame ==
    [][\A r \in Reqs :
          (pc[r] = "update" /\ pc'[r] = "idle" /\ Exists(tasks, req[r].id))
          => /\ DOMAIN tasks' = DOMAIN tasks
             /\ tasks'[req[r].id].user = tasks[req[r].id].user
             /\ \A i \in DOMAIN tasks \ {req[r].id} : tasks'[i] = tasks[i]]_vars

\* C14: a deleteTask of the task's owner on an existing task goes on to the
\* removal, which answers 200 with the id and takes exactly that document
\* out of the collection; a deleted id stays deleted and no getTasks answer
\* carries it.
C14_DeleteFrame ==
    [][ /\ \A r \in Reqs, u \in Users, id \in Ids :
              (Exists(tasks, id) /\ tasks[id].user = u /\ DeleteLookup(r, u, id))
              => /\ pc'[r] = "delete" /\ req'[r].id = id
                 /\ tasks' = tasks
        /\ \A r \in Reqs :
              (pc[r] = "delete" /\ pc'[r] = "idle")
              => /\ last'.op = "delete" /\ last'.code = 200
                 /\ last'.id = req[r].id
                 /\ DOMAIN tasks' = DOMAIN tasks \ {req[r].id}
                 /\ \A i \in DOMAIN tasks' : tasks'[i] = tasks[i]
        /\ \A id \in Ids : Deleted(id) => Deleted(id)'
        /\ \A u \in Actors :
              GetTasks(u) => \A d \in last'.body : ~Deleted(d.id)' ]_vars

\* C14 witness: a delete was answered 200, its id is gone and another task
\* is still stored.
C14_Witness ==
    /\ last.op = "delete" /\ last.code = 200
    /\ Deleted(last.id)
    /\ DOMAIN tasks # {}

\* C12: whenever a create, update or delete call of the Dashboard fails,
\* the Dashboard shows a message to the user and its task list is what it
\* was before the failure was handled.
C12_FailureShownListKept ==
    [][\A c \in Reqs :
          ( /\ calls[c].stage = "answered"
            /\ calls[c].code # 200
            /\ calls'[c].stage = "idle" )
          => /\ DashboardMessage' # NoMessage
             /\ local' = local]_vars

\* C16: when the Dashboard has loaded, every handler was invoked after the
\* load and all calls have completed without a failure, the Dashboard's
\* task list holds exactly the server's tasks of the user.
C16_SettledListMatchesServer ==
    (Settled /\ ~early /\ ~logged)
    => Elems(local) = ListOf(tasks, ClientUser)

\* C15: after every operation of a sequence of list, create, update and
\* delete operations of one user, MockBackend and the server have given the
\* same outcome: both succeed or both fail, and the tasks they answer with
\* are the same up to ids.
C15_MockMatchesServer ==
    (cur.stage = "done" /\ cur.op # "none")
    => /\ mockOut.ok = (last.code = 200)
       /\ mockOut.ok => Shapes(mockOut.docs) = Shapes(DocsById(last.body))

====
